---- MODULE Spec2Model ----
(***************************************************************************)
(* Model of src/cool_lion.py: the Streamlit chat front-end over the Gemini *)
(* API.  The module models                                                 *)
(*   - safe_get_text_from_resp (lines 37-69) as the operator of that name, *)
(*     over a tagged representation of the response shapes it probes;      *)
(*   - the send handler (lines 106-193) as a state machine whose position  *)
(*     is pc, one action per block of the handler;                         *)
(*   - st.session_state.history (lines 23-24, 76-79) as the variable       *)
(*     history, which survives script reruns.                              *)
(* Text is a sequence of one-character strings, so that str.strip and      *)
(* concatenation are computed, not assumed.                                *)
(***************************************************************************)
EXTENDS Integers, Sequences, FiniteSets, TLC

\* ------------------------------------------------------------------ bounds
\* longest history for which a further send is still started
MaxHistory == 3
\* chunks one stream can deliver before it must end or fail
MaxChunks == 3

\* --------------------------------------------------------------- text
IsSpace(c) == c = " "

RECURSIVE lstrip(_)
lstrip(s) == IF s = <<>> THEN s
             ELSE IF IsSpace(Head(s)) THEN lstrip(Tail(s)) ELSE s

RECURSIVE rstrip(_)
rstrip(s) == IF s = <<>> THEN s
             ELSE IF IsSpace(s[Len(s)]) THEN rstrip(SubSeq(s, 1, Len(s) - 1)) ELSE s

\* strip() that forgets the trailing whitespace
strip_leading_only(s) == lstrip(s)

\* str.strip() with no argument: leading and trailing whitespace removed
strip(s) == rstrip(lstrip(s))

\* ------------------------------------------------------- Python values
\* The values a response field can hold: a str, None, or a non-str (an int).
PyStr(s) == [k |-> "str", s |-> s, n |-> 0]
PyNone == [k |-> "none", s |-> <<>>, n |-> 0]
PyInt(i) == [k |-> "int", s |-> <<>>, n |-> i]

\* Python truthiness, as used by `or` and `if`
Truthy(v) == CASE v.k = "str" -> v.s # <<>>
               [] v.k = "int" -> v.n # 0
               [] OTHER -> FALSE

\* a or b
PyOr(a, b) == IF Truthy(a) THEN a ELSE b

\* the contents the model lets a text field hold
FieldTexts == {<<>>, <<"A">>, <<"B">>, <<" ">>, <<" ", "A", " ">>}

PyVals == {PyStr(t) : t \in FieldTexts} \cup {PyNone, PyInt(5)}

\* ---------------------------------------------------- response shapes
\* A field of an object or key of a dict: absent, present with a value, or
\* (objects only) a property whose access raises something other than
\* AttributeError.
Absent == [f |-> "absent", v |-> PyNone]
Raises == [f |-> "raises", v |-> PyNone]
Val(v) == [f |-> "val", v |-> v]

\* The candidates member: absent, present but falsy (None or []), present
\* and truthy but without the content/parts/text path, present with the
\* path ending in v, or (objects only) raising on access.
CAbsent == [c |-> "absent", v |-> PyNone]
CEmpty == [c |-> "empty", v |-> PyNone]
CMalformed == [c |-> "malformed", v |-> PyNone]
CRaises == [c |-> "raises", v |-> PyNone]
CNested(v) == [c |-> "nested", v |-> v]

RespStr(s) == [shape |-> "str", s |-> s, text |-> Absent, delta |-> Absent, cands |-> CAbsent]
RespNone == [shape |-> "none", s |-> <<>>, text |-> Absent, delta |-> Absent, cands |-> CAbsent]
RespObj(t, c) == [shape |-> "obj", s |-> <<>>, text |-> t, delta |-> Absent, cands |-> c]
RespDict(t, d, c) == [shape |-> "dict", s |-> <<>>, text |-> t, delta |-> d, cands |-> c]

ObjFields == {Absent, Raises} \cup {Val(v) : v \in PyVals}
DictFields == {Absent} \cup {Val(v) : v \in PyVals}
DeltaFields == {Absent, Val(PyStr(<<"B">>)), Val(PyStr(<<>>))}
ObjCands == {CAbsent, CEmpty, CMalformed, CRaises} \cup {CNested(v) : v \in PyVals}
DictCands == {CAbsent, CEmpty, CMalformed} \cup {CNested(v) : v \in PyVals}

\* every response value the normalizer is exercised on
Envelopes == {RespStr(t) : t \in FieldTexts} \cup {RespNone}
             \cup {RespObj(t, c) : t \in ObjFields, c \in ObjCands}
             \cup {RespDict(t, d, c) : t \in DictFields, d \in DeltaFields, c \in DictCands}

\* dict.get(key): the value, or None when the key is missing
DictGet(f) == IF f.f = "val" THEN f.v ELSE PyNone

\* safe_get_text_from_resp with the dict branch probing the direct text field
\* before the candidates
safe_get_text_direct_first(resp) ==
    CASE resp.shape = "str" -> PyStr(resp.s)
      [] resp.shape = "none" -> PyStr(<<>>)
      [] resp.shape = "obj" ->
            IF resp.text.f = "raises" THEN PyStr(<<>>)
            ELSE IF resp.text.f = "val" THEN resp.text.v
            ELSE IF resp.cands.c = "raises" THEN PyStr(<<>>)
            ELSE IF resp.cands.c = "nested" THEN resp.cands.v
            ELSE PyStr(<<>>)
      [] resp.shape = "dict" ->
            IF Truthy(DictGet(resp.text)) THEN DictGet(resp.text)
            ELSE IF resp.cands.c = "nested" THEN resp.cands.v
            ELSE PyOr(DictGet(resp.delta), PyStr(<<>>))

\* Outcome of safe_get_text_from_resp: what the `return` hands back.  The
\* outer try/except turns every exception into "", so there is no raising
\* outcome.
safe_get_text_from_resp(resp) ==
    CASE resp.shape = "str" -> PyStr(resp.s)
      [] resp.shape = "none" -> PyStr(<<>>)
      [] resp.shape = "obj" ->
            IF resp.text.f = "raises" THEN PyStr(<<>>)
            ELSE IF resp.text.f = "val" THEN resp.text.v
            ELSE IF resp.cands.c = "raises" THEN PyStr(<<>>)
            ELSE IF resp.cands.c = "nested" THEN resp.cands.v
            ELSE PyStr(<<>>)
      [] resp.shape = "dict" ->
            IF resp.cands.c = "nested" THEN resp.cands.v
            ELSE PyOr(PyOr(DictGet(resp.text), DictGet(resp.delta)), PyStr(<<>>))

\* getattr(response, "text", ""): the attribute, "" when there is none, or
\* the exception of a property that raises
getattr_text(resp) ==
    IF resp.shape = "obj" /\ resp.text.f = "raises" THEN [raises |-> TRUE, v |-> PyNone]
    ELSE IF resp.shape = "obj" /\ resp.text.f = "val" THEN [raises |-> FALSE, v |-> resp.text.v]
    ELSE [raises |-> FALSE, v |-> PyStr(<<>>)]

\* line 179 reading response.text only
response_text_attr_only(resp) == PyOr(getattr_text(resp).v, PyStr(<<>>))

\* Line 179, when getattr does not raise:
\* safe_get_text_from_resp(response) or getattr(response, "text", "") or ""
response_text(resp) ==
    IF Truthy(safe_get_text_from_resp(resp)) THEN safe_get_text_from_resp(resp)
    ELSE PyOr(getattr_text(resp).v, PyStr(<<>>))

\* ------------------------------------------------------ program constants
\* line 78 (the Korean greeting, written here in ASCII)
Greeting == <<"H", "i", "!">>

\* line 187 (the em dash written as "-")
FailedText ==
    <<"[", "G", "e", "n", "e", "r", "a", "t", "i", "o", "n", " ", "f", "a", "i", "l", "e", "d", " ",
      "-", " ", "s", "e", "e", " ", "e", "r", "r", "o", "r", " ", "a", "b", "o", "v", "e", "]">>

\* ------------------------------------------------------------- inputs
\* what the user can have typed when the script runs
UserInputs == {<<>>, <<" ">>, <<" ", "A">>}
\* sidebar settings: the defaults of lines 84-86 (temperature in hundredths)
Settings == { [model |-> "gemini-2.5-flash", max_output_tokens |-> 1024, temperature |-> 20] }
\* descriptions of the exceptions the blocking call raises
ErrDescs == {<<"t", "i", "m", "e", "o", "u", "t">>, <<"A">>}
\* descriptions of the exceptions the streaming calls raise
StreamErrDescs == {<<"t", "i", "m", "e", "o", "u", "t">>}
\* descriptions of the exceptions raised inside the handler itself
UIErrDesc == <<"u", "i">>
\* line 18: RuntimeError("Missing GEMINI_API_KEY")
ConfigErrDesc == <<"M", "i", "s", "s", "i", "n", "g", " ", "G", "E", "M", "I", "N", "I", "_",
                   "A", "P", "I", "_", "K", "E", "Y">>
TypeErrDesc == <<"T", "y", "p", "e", "E", "r", "r", "o", "r">>
AttrErrDesc == <<"A", "t", "t", "r", "i", "b", "u", "t", "e", "E", "r", "r", "o", "r">>

\* An exception: where it was raised (src) and str(e) (desc).
\*   "config"    init_client
\*   "ui"        a Streamlit call of the handler
\*   "init"      the call that initiates the stream
\*   "pull"      pulling the next chunk
\*   "concat"    streamed_text += delta with a delta that is no str
\*   "blocking"  the blocking generate_content call
\*   "getattr"   getattr(response, "text", "") on a property that raises
\*   "strip"     text.strip() on a text that is no str
Exc(src, desc) == [src |-> src, desc |-> desc]
NoErr == Exc("none", <<>>)

\* chunks a stream can deliver
ChunkValues == { RespStr(<<"A">>), RespStr(<<" ">>),
                 RespDict(Val(PyStr(<<"A">>)), Absent, CNested(PyStr(<<"B">>))),
                 RespObj(Val(PyNone), CNested(PyStr(<<"A">>))),
                 RespObj(Val(PyInt(5)), CAbsent) }

\* values the blocking call can return
Responses == { RespObj(Val(PyStr(<<"A">>)), CNested(PyStr(<<"B">>))),
               RespObj(Val(PyStr(<<" ", "A", " ">>)), CAbsent),
               RespObj(Val(PyNone), CNested(PyStr(<<"B">>))),
               RespObj(Val(PyInt(5)), CAbsent),
               RespObj(Raises, CAbsent),
               RespObj(Absent, CNested(PyStr(<<"B">>))),
               RespDict(Val(PyStr(<<"A">>)), Absent, CNested(PyStr(<<"B">>))),
               RespNone }

\* ------------------------------------------------------------ state
VARIABLES
    history,               \* st.session_state.history
    pc,                    \* position of the script run
    user_input,            \* text area content of this run
    send_btn,              \* whether the Send button was pressed for this run
    use_streaming_toggle,  \* sidebar checkbox
    model,                 \* sidebar: model
    max_output_tokens,     \* sidebar: max output tokens
    temperature,           \* sidebar: temperature
    stream_fn,             \* whether a streaming method was found on client.models
    streamed_text,         \* accumulator of the streaming loop
    assistant_slot,        \* what assistant_slot.markdown last displayed
    err,                   \* the exception raised during this run, if any
    hist0,                 \* history when this run started
    calls,                 \* generation calls issued during this run
    pulled,                \* chunks pulled from the stream during this run
    snapshots,             \* texts displayed by line 165 during this run
    response,              \* what the blocking call returned during this run
    nresp,                 \* normalizer harness: the value handed to safe_get_text_from_resp
    nret                   \* normalizer harness: what it returned

svars == <<history, pc, user_input, send_btn, use_streaming_toggle, model, max_output_tokens,
           temperature, stream_fn, streamed_text, assistant_slot, err, hist0, calls,
           pulled, snapshots, response>>
nvars == <<nresp, nret>>
vars == <<svars, response, nvars>>

Message(role, text) == [role |-> role, text |-> text]

\* append_history that inserts at the front
append_history_front(h, role, text) == <<Message(role, text)>> \o h

\* append_history(role, text)
append_history(h, role, text) == Append(h, Message(role, text))

Slot(kind, text) == [kind |-> kind, text |-> text]

\* stream_fn(model=..., contents=..., config=GenerateContentConfig(...))
KwCall(fn) == [fn |-> fn, model |-> model, contents |-> user_input, config |-> TRUE,
               max_output_tokens |-> max_output_tokens, temperature |-> temperature]
\* stream_fn(model, contents_single)
PosCall(fn) == [fn |-> fn, model |-> model, contents |-> user_input, config |-> FALSE,
                max_output_tokens |-> 0, temperature |-> 0]

\* response before line 171 has assigned it
NoResponse == [shape |-> "unset", s |-> <<>>, text |-> Absent, delta |-> Absent, cands |-> CAbsent]

Terminal == {"idle", "skipped", "stopped", "raised", "done"}

SessionInit ==
    /\ history = <<Message("assistant", Greeting)>>
    /\ pc = "idle"
    /\ user_input = <<>>
    /\ send_btn = FALSE
    /\ use_streaming_toggle = TRUE
    /\ model = "gemini-2.5-flash"
    /\ max_output_tokens = 1024
    /\ temperature = 20
    /\ stream_fn = FALSE
    /\ streamed_text = <<>>
    /\ assistant_slot = Slot("none", <<>>)
    /\ err = NoErr
    /\ hist0 = history
    /\ calls = <<>>
    /\ pulled = <<>>
    /\ snapshots = <<>>
    /\ response = NoResponse

\* nret before safe_get_text_from_resp has returned
Pending == [k |-> "pending", s |-> <<>>, n |-> 0]

Init == /\ SessionInit
        /\ nresp = RespNone
        /\ nret = Pending

\* the send guard without the strip
SendGuardNoStrip(btn, inp) == btn /\ inp # <<>>

\* Line 106: if send_btn and user_input.strip()
SendGuard(btn, inp) == btn /\ strip(inp) # <<>>

\* One script run, lines 82-107: the widgets are read, and when the button
\* was pressed with non-blank input the user message is appended.
Send ==
    /\ pc \in Terminal
    /\ Len(history) <= MaxHistory
    /\ \E inp \in UserInputs, btn \in BOOLEAN, tg \in BOOLEAN,
          cfg \in Settings :
        /\ user_input' = inp
        /\ send_btn' = btn
        /\ use_streaming_toggle' = tg
        /\ model' = cfg.model
        /\ max_output_tokens' = cfg.max_output_tokens
        /\ temperature' = cfg.temperature
        /\ hist0' = history
        /\ IF SendGuard(btn, inp)
           THEN /\ history' = append_history(history, "user", inp)
                /\ pc' = "init"
           ELSE /\ history' = history
                /\ pc' = "skipped"
    /\ stream_fn' = FALSE
    /\ streamed_text' = <<>>
    /\ assistant_slot' = Slot("none", <<>>)
    /\ err' = NoErr
    /\ calls' = <<>>
    /\ pulled' = <<>>
    /\ snapshots' = <<>>
    /\ response' = NoResponse
    /\ UNCHANGED nvars

\* init_client failing without st.stop()
InitClientWithoutStop ==
    /\ pc = "init"
    /\ \E ok \in BOOLEAN, sf \in BOOLEAN :
        IF ok THEN /\ pc' = "show"
                   /\ stream_fn' = sf
                   /\ err' = err
              ELSE /\ pc' = "show"
                   /\ stream_fn' = sf
                   /\ err' = Exc("config", ConfigErrDesc)
    /\ UNCHANGED <<history, user_input, send_btn, use_streaming_toggle, model,
                   max_output_tokens, temperature, streamed_text, assistant_slot, hist0,
                   calls, pulled, snapshots, response, nvars>>

\* Lines 108-114 and 128-135: init_client, st.stop() when it raises, and the
\* search for a streaming method on the client it returned.
InitClient ==
    /\ pc = "init"
    /\ \E ok \in BOOLEAN, sf \in BOOLEAN :
        IF ok THEN /\ pc' = "show"
                   /\ stream_fn' = sf
                   /\ err' = err
              ELSE /\ pc' = "stopped"
                   /\ stream_fn' = FALSE
                   /\ err' = Exc("config", ConfigErrDesc)
    /\ UNCHANGED <<history, user_input, send_btn, use_streaming_toggle, model,
                   max_output_tokens, temperature, streamed_text, assistant_slot, hist0,
                   calls, pulled, snapshots, response, nvars>>

\* Lines 117-125: the UI updates made outside the try block, then
\* streamed_text = "".
ShowThinking ==
    /\ pc = "show"
    /\ \E ui \in BOOLEAN :
        IF ui THEN /\ pc' = "try"
                   /\ assistant_slot' = Slot("thinking", <<>>)
                   /\ err' = err
              ELSE /\ pc' = "raised"
                   /\ assistant_slot' = assistant_slot
                   /\ err' = Exc("ui", UIErrDesc)
    /\ streamed_text' = <<>>
    /\ UNCHANGED <<history, user_input, send_btn, use_streaming_toggle, model, max_output_tokens,
                   temperature, stream_fn, hist0, calls, pulled, snapshots, response, nvars>>

\* Lines 137-157: the streaming branch up to the loop.
StreamInit ==
    /\ pc = "try"
    /\ use_streaming_toggle /\ stream_fn
    /\ \E ui \in BOOLEAN, o1 \in {"ok", "TypeError", "error"}, o2 \in {"ok", "error"},
          d \in StreamErrDescs :
        IF ~ui
        THEN /\ pc' = "except" /\ err' = Exc("ui", UIErrDesc)
             /\ calls' = calls /\ assistant_slot' = assistant_slot
        ELSE /\ assistant_slot' = Slot("partial", <<>>)
             /\ CASE o1 = "ok" ->
                       /\ calls' = Append(calls, KwCall("stream"))
                       /\ pc' = "loop" /\ err' = err
                  [] o1 = "TypeError" ->
                       /\ calls' = calls \o <<KwCall("stream"), PosCall("stream")>>
                       /\ IF o2 = "ok" THEN pc' = "loop" /\ err' = err
                                       ELSE pc' = "except" /\ err' = Exc("init", d)
                  [] OTHER ->
                       /\ calls' = Append(calls, KwCall("stream"))
                       /\ pc' = "except" /\ err' = Exc("init", d)
    /\ UNCHANGED <<history, user_input, send_btn, use_streaming_toggle, model, max_output_tokens,
                   temperature, stream_fn, streamed_text, hist0, pulled, snapshots, response, nvars>>

\* the loop body displaying the delta in place of the accumulated text
PullChunkShowsDelta ==
    /\ pc = "loop"
    /\ Len(pulled) < MaxChunks
    /\ \E chunk \in ChunkValues, ui \in BOOLEAN :
        LET delta == PyOr(safe_get_text_from_resp(chunk), PyStr(<<>>)) IN
        /\ pulled' = Append(pulled, chunk)
        /\ IF ~Truthy(delta)
           THEN UNCHANGED <<pc, err, streamed_text, assistant_slot, snapshots>>
           ELSE IF delta.k # "str"
           THEN /\ pc' = "except" /\ err' = Exc("concat", TypeErrDesc)
                /\ UNCHANGED <<streamed_text, assistant_slot, snapshots>>
           ELSE /\ streamed_text' = streamed_text \o delta.s
                /\ IF ui THEN /\ assistant_slot' = Slot("partial", delta.s)
                              /\ snapshots' = Append(snapshots, delta.s)
                              /\ UNCHANGED <<pc, err>>
                         ELSE /\ pc' = "except" /\ err' = Exc("ui", UIErrDesc)
                              /\ UNCHANGED <<assistant_slot, snapshots>>
    /\ UNCHANGED <<history, user_input, send_btn, use_streaming_toggle, model, max_output_tokens,
                   temperature, stream_fn, hist0, calls, response, nvars>>

\* Lines 160-165: one iteration of the loop over a chunk the stream yields.
PullChunk ==
    /\ pc = "loop"
    /\ Len(pulled) < MaxChunks
    /\ \E chunk \in ChunkValues, ui \in BOOLEAN :
        LET delta == PyOr(safe_get_text_from_resp(chunk), PyStr(<<>>)) IN
        /\ pulled' = Append(pulled, chunk)
        /\ IF ~Truthy(delta)
           THEN UNCHANGED <<pc, err, streamed_text, assistant_slot, snapshots>>
           ELSE IF delta.k # "str"
           THEN /\ pc' = "except" /\ err' = Exc("concat", TypeErrDesc)
                /\ UNCHANGED <<streamed_text, assistant_slot, snapshots>>
           ELSE /\ streamed_text' = streamed_text \o delta.s
                /\ IF ui THEN /\ assistant_slot' = Slot("partial", streamed_text')
                              /\ snapshots' = Append(snapshots, streamed_text')
                              /\ UNCHANGED <<pc, err>>
                         ELSE /\ pc' = "except" /\ err' = Exc("ui", UIErrDesc)
                              /\ UNCHANGED <<assistant_slot, snapshots>>
    /\ UNCHANGED <<history, user_input, send_btn, use_streaming_toggle, model, max_output_tokens,
                   temperature, stream_fn, hist0, calls, response, nvars>>

\* Line 160: pulling the next chunk raises.
StreamRaise ==
    /\ pc = "loop"
    /\ \E d \in StreamErrDescs : err' = Exc("pull", d)
    /\ pc' = "except"
    /\ UNCHANGED <<history, user_input, send_btn, use_streaming_toggle, model, max_output_tokens,
                   temperature, stream_fn, streamed_text, assistant_slot, hist0, calls,
                   pulled, snapshots, response, nvars>>

\* the end of the stream treating an empty accumulator as a failure
StreamEndEmptyIsFailure ==
    /\ pc = "loop"
    /\ history' = append_history(history, "assistant",
                                 IF streamed_text = <<>> THEN FailedText
                                 ELSE strip(streamed_text))
    /\ pc' = "final"
    /\ UNCHANGED <<user_input, send_btn, use_streaming_toggle, model, max_output_tokens,
                   temperature, stream_fn, streamed_text, assistant_slot, err, hist0, calls,
                   pulled, snapshots, response, nvars>>

\* Lines 160, 166-167: the stream is exhausted and the text is committed.
StreamEnd ==
    /\ pc = "loop"
    /\ history' = append_history(history, "assistant", strip(streamed_text))
    /\ pc' = "final"
    /\ UNCHANGED <<user_input, send_btn, use_streaming_toggle, model, max_output_tokens,
                   temperature, stream_fn, streamed_text, assistant_slot, err, hist0, calls,
                   pulled, snapshots, response, nvars>>

\* Lines 168-181: the blocking branch.
Blocking ==
    /\ pc = "try"
    /\ ~(use_streaming_toggle /\ stream_fn)
    /\ \E ui1 \in BOOLEAN, ui2 \in BOOLEAN, raised \in BOOLEAN, d \in ErrDescs,
          resp \in Responses :
        LET first == safe_get_text_from_resp(resp)
            attr == getattr_text(resp)
            text == response_text(resp)
        IN
        IF ~ui1
        THEN /\ pc' = "except" /\ err' = Exc("ui", UIErrDesc)
             /\ UNCHANGED <<calls, history, assistant_slot, response>>
        ELSE /\ calls' = Append(calls, KwCall("generate"))
             /\ response' = IF raised THEN response ELSE resp
             /\ IF raised
                THEN /\ pc' = "except" /\ err' = Exc("blocking", d)
                     /\ assistant_slot' = Slot("waiting", <<>>)
                     /\ history' = history
                ELSE IF ~Truthy(first) /\ attr.raises
                THEN /\ pc' = "except" /\ err' = Exc("getattr", d)
                     /\ assistant_slot' = Slot("waiting", <<>>)
                     /\ history' = history
                ELSE IF text.k # "str"
                THEN /\ pc' = "except" /\ err' = Exc("strip", AttrErrDesc)
                     /\ assistant_slot' = Slot("waiting", <<>>)
                     /\ history' = history
                ELSE /\ history' = append_history(history, "assistant", strip(text.s))
                     /\ IF ui2 THEN /\ assistant_slot' = Slot("text", text.s)
                                    /\ pc' = "final" /\ err' = err
                               ELSE /\ assistant_slot' = Slot("waiting", <<>>)
                                    /\ pc' = "except" /\ err' = Exc("ui", UIErrDesc)
    /\ UNCHANGED <<user_input, send_btn, use_streaming_toggle, model, max_output_tokens,
                   temperature, stream_fn, streamed_text, hist0, pulled, snapshots, nvars>>

\* except Exception committing the error description in the sentinel
ExceptWithDescription ==
    /\ pc = "except"
    /\ \E ui \in BOOLEAN :
        IF ui THEN /\ assistant_slot' = Slot("failed", err.desc)
                   /\ history' = append_history(history, "assistant", FailedText \o err.desc)
                   /\ pc' = "final"
              ELSE /\ pc' = "raised"
                   /\ UNCHANGED <<assistant_slot, history>>
    /\ UNCHANGED <<user_input, send_btn, use_streaming_toggle, model, max_output_tokens,
                   temperature, stream_fn, streamed_text, err, hist0, calls, pulled,
                   snapshots, response, nvars>>

\* Lines 183-187: except Exception.
Except ==
    /\ pc = "except"
    /\ \E ui \in BOOLEAN :
        IF ui THEN /\ assistant_slot' = Slot("failed", err.desc)
                   /\ history' = append_history(history, "assistant", FailedText)
                   /\ pc' = "final"
              ELSE /\ pc' = "raised"
                   /\ UNCHANGED <<assistant_slot, history>>
    /\ UNCHANGED <<user_input, send_btn, use_streaming_toggle, model, max_output_tokens,
                   temperature, stream_fn, streamed_text, err, hist0, calls, pulled,
                   snapshots, response, nvars>>

\* Lines 189-193: the final re-render.
Final ==
    /\ pc = "final"
    /\ \E ui \in BOOLEAN : pc' = IF ui THEN "done" ELSE "raised"
    /\ UNCHANGED <<history, user_input, send_btn, use_streaming_toggle, model, max_output_tokens,
                   temperature, stream_fn, streamed_text, assistant_slot, err, hist0, calls,
                   pulled, snapshots, response, nvars>>

Next == \/ Send
        \/ InitClient
        \/ ShowThinking
        \/ StreamInit
        \/ PullChunk
        \/ StreamRaise
        \/ StreamEnd
        \/ Blocking
        \/ Except
        \/ Final

Spec == Init /\ [][Next]_vars

\* ------------------------------------------------- normalizer harness
\* safe_get_text_from_resp on its own: any response value goes in, the call
\* returns once.
NormInit == /\ SessionInit
            /\ nresp \in Envelopes
            /\ nret = Pending

Normalize == /\ nret = Pending
             /\ nret' = safe_get_text_from_resp(nresp)
             /\ UNCHANGED <<nresp, svars>>

SpecNormalize == NormInit /\ [][Normalize]_vars

\* ------------------------------------------------------------ properties
Last(sq) == sq[Len(sq)]

IsPrefix(a, b) == Len(a) <= Len(b) /\ SubSeq(b, 1, Len(a)) = a

\* sub occurs in sq as a contiguous run
Contains(sq, sub) ==
    \E i \in 0..(Len(sq) - Len(sub)) : SubSeq(sq, i + 1, i + Len(sub)) = sub

\* leading and trailing whitespace removed, by position
Trim(sq) ==
    LET solid == {i \in 1..Len(sq) : sq[i] # " "} IN
    IF solid = {} THEN <<>>
    ELSE SubSeq(sq, CHOOSE i \in solid : \A j \in solid : i <= j,
                    CHOOSE i \in solid : \A j \in solid : j <= i)

\* the normalized delta of a chunk (line 162)
Delta(chunk) == PyOr(safe_get_text_from_resp(chunk), PyStr(<<>>))

\* d1 + d2 + ... + dn over the chunks pulled
RECURSIVE ConcatDeltas(_)
ConcatDeltas(chunks) ==
    IF chunks = <<>> THEN <<>> ELSE Delta(Head(chunks)).s \o ConcatDeltas(Tail(chunks))

NumCalls(fn) == Cardinality({i \in 1..Len(calls) : calls[i].fn = fn})

\* the messages this run has appended
Appended == SubSeq(history, Len(hist0) + 1, Len(history))

\* the run took the streaming branch, and the stream it opened ended normally
StreamCommitted ==
    /\ pc \in {"final", "done", "raised"}
    /\ err = NoErr
    /\ NumCalls("stream") > 0

\* C1: a send with non-blank input whose client initialisation succeeds appends
\* exactly one user message and then exactly one assistant message, on every
\* path, a failing UI update included: when the handler has run to its end the
\* history is two longer than before, ending user, assistant.
C1_ExactlyOneUserOneAssistant ==
    pc = "done" =>
        /\ Len(history) = Len(hist0) + 2
        /\ history[Len(history) - 1].role = "user"
        /\ Last(history).role = "assistant"

\* C2: when the stream yields deltas d1..dk (k >= 1) and pulling the next chunk
\* raises, the committed assistant message is d1 + ... + dk, not the sentinel.
C2_PartialTextCommitted ==
    (pc = "done" /\ err.src = "pull" /\ ConcatDeltas(pulled) # <<>>) =>
        /\ Last(history) = Message("assistant", ConcatDeltas(pulled))
        /\ Last(history).text # FailedText

\* C3: when the call that initiates the stream raises, the blocking call is
\* made exactly once, no chunk is pulled, and the committed assistant message
\* is not the sentinel.
C3_InitiationFailureFallsBack ==
    (pc = "done" /\ err.src = "init") =>
        /\ NumCalls("generate") = 1
        /\ pulled = <<>>
        /\ Last(history).role = "assistant"
        /\ Last(history).text # FailedText

C5_EverySendAnswered ==
    pc \in {"stopped", "raised", "done"} =>
        /\ pc # "raised"
        /\ Len(Appended) >= 2
        /\ Appended[1].role = "user"
        /\ Appended[2].role = "assistant"

\* C6: with streaming switched off or no streaming method on the client, the
\* send makes exactly one blocking call and no streaming call, and commits one
\* assistant message.
C6_OneBlockingCall ==
    (pc = "done" /\ ~(use_streaming_toggle /\ stream_fn)) =>
        /\ NumCalls("generate") = 1
        /\ NumCalls("stream") = 0
        /\ Len(Appended) = 2
        /\ Last(history).role = "assistant"

\* a response with a direct text field and a nested candidate text that differ
BothTexts(r) ==
    /\ r.shape \in {"obj", "dict"}
    /\ r.text.f = "val" /\ r.text.v.k = "str"
    /\ r.cands.c = "nested" /\ r.cands.v.k = "str"
    /\ r.text.v # r.cands.v

SomeText(r) ==
    \/ r.shape = "str" /\ r.s # <<>>
    \/ r.shape \in {"obj", "dict"} /\ r.text.f = "val" /\ r.text.v.k = "str" /\ r.text.v.s # <<>>
    \/ r.shape \in {"obj", "dict"} /\ r.cands.c = "nested" /\ r.cands.v.k = "str"
         /\ r.cands.v.s # <<>>

\* C8: safe_get_text_from_resp returns a string for every input, and returns
\* the empty string only when no strategy finds text.
C8_AlwaysAString ==
    nret # Pending =>
        /\ nret.k = "str"
        /\ (nret.s = <<>> => ~SomeText(nresp))

\* C9: when the stream is exhausted without a failure, the committed assistant
\* message is trim(d1 + ... + dn) over the normalized deltas of all chunks.
C9_StreamCommitsTrimmedConcatenation ==
    StreamCommitted =>
        /\ Len(Appended) = 2
        /\ Last(history) = Message("assistant", Trim(ConcatDeltas(pulled)))

C9_Witness ==
    /\ StreamCommitted
    /\ pc = "done"
    /\ Len(pulled) = 3
    /\ Delta(pulled[1]).s = <<"A">>
    /\ Delta(pulled[2]).s = <<" ">>
    /\ Delta(pulled[3]).s = <<"B">>
    /\ Last(history).text = <<"A", " ", "B">>

\* C10: history is append-only: a step that changes it adds exactly one entry
\* at the end and leaves every earlier entry where it was.
C10_AppendOnly ==
    [][history' # history =>
         /\ Len(history') = Len(history) + 1
         /\ IsPrefix(history, history')]_vars

C10_Witness ==
    /\ pc = "done"
    /\ Len(history) >= 5
    /\ IsPrefix(hist0, history)
    /\ Len(hist0) >= 3

\* C11 as stated: on the blocking path, when the call returns a response r,
\* the committed assistant message text is normalize(r) itself, whatever the
\* shape of r and whatever whitespace the text begins or ends with.
C11_BlockingCommitsNormalized ==
    (pc = "done" /\ response # NoResponse) =>
        /\ Len(Appended) >= 2
        /\ PyStr(Appended[2].text) = safe_get_text_from_resp(response)

\* normalize(r) is a string that is not empty
HasNormalizedText(r) ==
    /\ safe_get_text_from_resp(r).k = "str"
    /\ safe_get_text_from_resp(r).s # <<>>

\* C11 as amended: when the blocking call returns r and normalize(r) is a
\* non-empty string, the assistant message committed for r is normalize(r)
\* with its leading and trailing whitespace removed.
C11_BlockingCommitsTrimmedNormalized ==
    (response # NoResponse /\ HasNormalizedText(response)) =>
        /\ Len(Appended) >= 2
        /\ Appended[2] = Message("assistant", Trim(safe_get_text_from_resp(response).s))

C11_Witness ==
    /\ pc = "done"
    /\ response = RespObj(Val(PyStr(<<" ", "A", " ">>)), CAbsent)
    /\ Len(Appended) = 2
    /\ Last(history) = Message("assistant", <<"A">>)

C13_CallsCarrySettings ==
    \A i \in 1..Len(calls) :
        /\ calls[i].model = model
        /\ calls[i].contents = user_input
        /\ calls[i].config
        /\ calls[i].max_output_tokens = max_output_tokens
        /\ calls[i].temperature = temperature

\* C14: when init_client fails the run halts before any generation call: no
\* streaming call, no blocking call, no chunk pulled, nothing committed after
\* the user message.
C14_ConfigFailureHaltsBeforeCalls ==
    err.src = "config" =>
        /\ pc = "stopped"
        /\ calls = <<>>
        /\ pulled = <<>>
        /\ response = NoResponse
        /\ Appended = <<Message("user", user_input)>>

C14_Witness ==
    /\ pc = "stopped"
    /\ err = Exc("config", ConfigErrDesc)
    /\ send_btn
    /\ calls = <<>>
    /\ Len(hist0) >= 3

\* C15: every message in history, the greeting included, has a role among
\* user and assistant, and a timestamp.
C15_MessagesHaveRoleAndTimestamp ==
    \A i \in 1..Len(history) :
        /\ history[i].role \in {"user", "assistant"}
        /\ "timestamp" \in DOMAIN history[i]

\* the accumulated text after each chunk with a non-empty delta, in order,
\* starting from the accumulated text acc
RECURSIVE AccumulatedAfter(_, _)
AccumulatedAfter(chunks, acc) ==
    IF chunks = <<>> THEN <<>>
    ELSE LET d == Delta(Head(chunks)) IN
         IF Truthy(d)
         THEN <<acc \o d.s>> \o AccumulatedAfter(Tail(chunks), acc \o d.s)
         ELSE AccumulatedAfter(Tail(chunks), acc)

\* C16: during streaming one snapshot is displayed per chunk with a non-empty
\* delta, after the delta is appended, showing the accumulated text so far;
\* none is displayed for an empty delta; each snapshot strictly extends the
\* one before; and when the stream ends normally the committed message is
\* trim of the last snapshot.
C16_SnapshotsFollowAccumulator ==
    LET expected == AccumulatedAfter(pulled, <<>>) IN
    /\ IsPrefix(snapshots, expected)
    /\ \A i \in 1..(Len(snapshots) - 1) :
          /\ IsPrefix(snapshots[i], snapshots[i + 1])
          /\ Len(snapshots[i]) < Len(snapshots[i + 1])
    /\ (pc = "loop" \/ StreamCommitted) =>
          /\ snapshots = expected
          /\ (snapshots # <<>> => Last(snapshots) = streamed_text)
    /\ (StreamCommitted /\ snapshots # <<>>) =>
          Last(history) = Message("assistant", Trim(Last(snapshots)))

C16_Witness ==
    /\ StreamCommitted
    /\ pc = "done"
    /\ Len(pulled) = 3
    /\ ~Truthy(Delta(pulled[2]))
    /\ snapshots = << <<"A">>, <<"A", " ">> >>
    /\ Last(history) = Message("assistant", <<"A">>)

\* C17: between sends, history is the assistant greeting followed by strictly
\* alternating user and assistant entries.
C17_RolesAlternate ==
    pc \in Terminal =>
        /\ history[1].role = "assistant"
        /\ \A i \in 2..Len(history) :
              history[i].role = IF i % 2 = 0 THEN "user" ELSE "assistant"

\* C18: a send whose input is empty or whitespace-only does nothing: history
\* is as it was, init_client is not called, and no streaming or blocking call
\* is made.
C18_BlankSendIsNoOp ==
    (send_btn /\ Trim(user_input) = <<>>) =>
        /\ pc = "skipped"
        /\ history = hist0
        /\ err = NoErr
        /\ stream_fn = FALSE
        /\ calls = <<>>
        /\ pulled = <<>>
        /\ response = NoResponse

C18_Witness ==
    /\ send_btn
    /\ user_input = <<" ">>
    /\ pc = "skipped"
    /\ history = hist0
    /\ Len(history) >= 3
====
